---- MODULE Spec2Model ----
(***************************************************************************)
(* Realtime audio session manager of the App component: connection         *)
(* attempts, the playback scheduler (nextStartTimeRef / sourcesRef), the    *)
(* capture pipeline gated by isMicOnRef, and the status state machine.     *)
(* Every callback of the component is one action; the suspension points    *)
(* of the async functions (await sessionPromise, await getUserMedia,       *)
(* await decodeAudioData) separate the actions of one function.  React     *)
(* state (status, script, isMicOn) is committed by the handler that sets   *)
(* it; the passive effects of that render run in a later step              *)
(* (FlushEffects), before the next render.                                  *)
(***************************************************************************)
EXTENDS Integers, Sequences, FiniteSets

\* ---- bounds of the model
MaxAttempts == 2
MaxChunks == 2
MaxTime == 2
MaxDuration == 2
MaxDisruptions == 1

Attempts == 1..MaxAttempts
Chunks == 1..MaxChunks
Durations == 1..MaxDuration

VARIABLES
  status,            \* useState<AppStatus>
  script,            \* useState<ScriptContent | null>: NoScript, or the type of
                     \* the content and whether its data is a non-empty string
  isMicOn,           \* useState(false)
  errorMsg,          \* useState<string | null>
  isMicOnRef,        \* useRef(false), copy of isMicOn written by an effect
  sessionRef,        \* useRef<any>(null): 0 or the attempt whose session it holds
  nextStartTimeRef,  \* useRef<number>(0)
  sourcesRef,        \* useRef<Set<AudioBufferSourceNode>>: ids of the chunks in it
  effectPending,     \* a render changed status/isMicOn/script; effects not yet run
  attempts,          \* per call of connectToGemini: position and captured script
  chan,              \* per attempt: state of the channel ai.live.connect opened
  currentTime,       \* outputAudioContextRef.current.currentTime
  chunks,            \* per inbound audio chunk: decode/playback state
  lastFrame,         \* the last microphone frame: the pipeline it came to, and
                     \* whether it was sent
  prevEnd,           \* <<end time>> of the chunk scheduled last since the last
                     \* interruption, <<>> if none
  arrMax,            \* largest clock value read by an arriving chunk since then
  primed,            \* per attempt: image priming messages sent on its session
  nDisrupt,          \* number of disruptions so far (see Disrupt)
  scope              \* what this run is bounded by (see Scopes)

vars == <<status, script, isMicOn, errorMsg, isMicOnRef, sessionRef,
          nextStartTimeRef, sourcesRef, effectPending, attempts, chan,
          currentTime, chunks, lastFrame, prevEnd, arrMax, primed, nDisrupt,
          scope>>

\* enum AppStatus
AppStatus == {"IDLE", "FILE_UPLOADED", "CONNECTING", "READY", "LISTENING",
              "SPEAKING", "ERROR"}

\* ScriptContent.type
ScriptTypes == {"text", "image", "raw_text"}

Max(a, b) == IF a >= b THEN a ELSE b

\* script === null
NoScript == [type |-> "null", data |-> FALSE]

NoAttempt == [pc |-> "none", stype |-> NoScript]

NoChunk == [st |-> "none", dur |-> 0, intr |-> FALSE, ctx |-> 0, start |-> 0,
            endAt |-> 0, stopped |-> FALSE]

NoFrame == [by |-> 0, sent |-> FALSE]

\* number of calls of connectToGemini that got past the script check;
\* it also names the audio contexts the last call created
nAttempts == Cardinality({a \in Attempts : attempts[a].pc # "none"})

nChunks == Cardinality({c \in Chunks : chunks[c].st # "none"})

\* The runs explored are bounded in one of three ways: sessions that follow
\* one another with no inbound audio; one undisrupted session with inbound
\* audio; one session with one chunk of inbound audio and disruptions.
Scopes ==
  { [attempts |-> MaxAttempts, chunks |-> 0, time |-> 0,
     disruptions |-> MaxDisruptions],
    [attempts |-> 1, chunks |-> MaxChunks, time |-> MaxTime, disruptions |-> 0],
    [attempts |-> 1, chunks |-> 1, time |-> 1, disruptions |-> MaxDisruptions] }

Init ==
  /\ status = "IDLE"
  /\ script = NoScript
  /\ isMicOn = FALSE
  /\ errorMsg = "null"
  /\ isMicOnRef = FALSE
  /\ sessionRef = 0
  /\ nextStartTimeRef = 0
  /\ sourcesRef = {}
  /\ effectPending = FALSE
  /\ attempts = [a \in Attempts |-> NoAttempt]
  /\ chan = [a \in Attempts |-> "none"]
  /\ currentTime = 0
  /\ chunks = [c \in Chunks |-> NoChunk]
  /\ lastFrame = NoFrame
  /\ prevEnd = <<>>
  /\ arrMax = 0
  /\ primed = [a \in Attempts |-> 0]
  /\ nDisrupt = 0
  /\ scope \in Scopes

\* A run holds at most MaxDisruptions of the events that cut a session short:
\* a reset, a channel error, a close by the server, a rejected connect, a
\* refused microphone.
Disrupt == nDisrupt < scope.disruptions /\ nDisrupt' = nDisrupt + 1

\* setStatus/setScript/setIsMicOn of one handler.  Setting the values the
\* state already has renders nothing.  A change schedules a render and,
\* after it, the effects whose dependencies (isMicOn, status,
\* connectToGemini[script]) changed; the effects of the previous render have
\* run before the next render is committed.
Render(s, sc, m) ==
  /\ status' = s
  /\ script' = sc
  /\ isMicOn' = m
  /\ IF s = status /\ sc = script /\ m = isMicOn
       THEN effectPending' = effectPending
       ELSE ~effectPending /\ effectPending' = TRUE

\* the audio clock of the output context advances
Tick ==
  /\ currentTime < scope.time
  /\ currentTime' = currentTime + 1
  /\ UNCHANGED <<nDisrupt, scope, primed, status, script, isMicOn, errorMsg, isMicOnRef, sessionRef,
                 nextStartTimeRef, sourcesRef, effectPending, attempts, chan,
                 chunks, lastFrame, prevEnd, arrMax>>

\* the files chosen in the upload input: file.type starts with image/ or
\* not, and the base64 part of the data URL is empty (an empty file) or not
Files == {[type |-> "text", data |-> TRUE], [type |-> "image", data |-> TRUE],
          [type |-> "image", data |-> FALSE]}

\* reader.onload of handleFileUpload; the upload input is rendered only
\* while script is null
handleFileUpload(file) ==
  /\ script = NoScript
  /\ Render("FILE_UPLOADED", file, isMicOn)
  /\ UNCHANGED <<nDisrupt, scope, primed, errorMsg, isMicOnRef, sessionRef, nextStartTimeRef, sourcesRef,
                 attempts, chan, currentTime, chunks, lastFrame, prevEnd, arrMax>>

\* pastedText.trim(): the text without its leading and trailing blanks
RECURSIVE TrimStart(_)
TrimStart(t) == IF t # <<>> /\ Head(t) = " " THEN TrimStart(Tail(t)) ELSE t

RECURSIVE TrimEnd(_)
TrimEnd(t) ==
  IF t # <<>> /\ t[Len(t)] = " " THEN TrimEnd(SubSeq(t, 1, Len(t) - 1)) ELSE t

\* the text taken as it was typed
TrimNone(t) == t

Trim(t) == TrimEnd(TrimStart(t))

\* contents of the textarea when "Initialize with Text" is clicked
PastedTexts == {<<>>, <<" ">>, <<" ", " ">>, <<"r">>, <<" ", "r">>}

\* the paste form is rendered only while script is null
handlePasteSubmit(pastedText) ==
  /\ script = NoScript
  /\ IF Trim(pastedText) = <<>>
       THEN UNCHANGED <<status, script, isMicOn, effectPending>>
       ELSE Render("FILE_UPLOADED", [type |-> "raw_text", data |-> FALSE], isMicOn)
  /\ UNCHANGED <<nDisrupt, scope, primed, errorMsg, isMicOnRef, sessionRef, nextStartTimeRef, sourcesRef,
                 attempts, chan, currentTime, chunks, lastFrame, prevEnd, arrMax>>

\* the mic button is disabled while status is IDLE or CONNECTING; toggleMic
\* itself returns while status is IDLE or ERROR
toggleMic ==
  /\ status \notin {"IDLE", "CONNECTING"}
  /\ IF status \in {"IDLE", "ERROR"}
       THEN UNCHANGED <<status, script, isMicOn, effectPending>>
       ELSE Render(status, script, ~isMicOn)
  /\ UNCHANGED <<nDisrupt, scope, primed, errorMsg, isMicOnRef, sessionRef, nextStartTimeRef, sourcesRef,
                 attempts, chan, currentTime, chunks, lastFrame, prevEnd, arrMax>>

\* connectToGemini up to `await sessionPromise`: the script check, CONNECTING,
\* the two new audio contexts (the output clock restarts at 0) and the call
\* of ai.live.connect
connectToGemini ==
  IF script = NoScript
    THEN /\ effectPending' = FALSE
         /\ UNCHANGED <<status, errorMsg, attempts, chan, currentTime>>
    ELSE /\ nAttempts < scope.attempts
         /\ status' = "CONNECTING"
         /\ effectPending' = TRUE
         /\ errorMsg' = "null"
         /\ attempts' = [attempts EXCEPT ![nAttempts + 1] =
                           [pc |-> "connecting", stype |-> script]]
         /\ chan' = [chan EXCEPT ![nAttempts + 1] = "connecting"]
         /\ currentTime' = 0

\* the two passive effects of a render, in the order they are declared:
\* useEffect([isMicOn]) and useEffect([isMicOn, status, connectToGemini])
FlushEffects ==
  /\ effectPending
  /\ isMicOnRef' = isMicOn
  /\ IF isMicOn /\ status \in {"READY", "FILE_UPLOADED"}
       THEN IF sessionRef = 0
              THEN connectToGemini
              ELSE /\ status' = "LISTENING"
                   /\ effectPending' = TRUE
                   /\ UNCHANGED <<errorMsg, attempts, chan, currentTime>>
       ELSE IF ~isMicOn /\ status = "LISTENING"
              THEN /\ status' = "READY"
                   /\ effectPending' = TRUE
                   /\ UNCHANGED <<errorMsg, attempts, chan, currentTime>>
              ELSE /\ effectPending' = FALSE
                   /\ UNCHANGED <<status, errorMsg, attempts, chan, currentTime>>
  /\ UNCHANGED <<nDisrupt, scope, primed, script, isMicOn, sessionRef, nextStartTimeRef, sourcesRef,
                 chunks, lastFrame, prevEnd, arrMax>>

\* callbacks.onopen of attempt a
onopen(a) ==
  /\ attempts[a].pc = "connecting"
  /\ Render("READY", script, isMicOn)
  /\ attempts' = [attempts EXCEPT ![a].pc = "opened"]
  /\ chan' = [chan EXCEPT ![a] = "open"]
  /\ UNCHANGED <<nDisrupt, scope, primed, errorMsg, isMicOnRef, sessionRef, nextStartTimeRef, sourcesRef,
                 currentTime, chunks, lastFrame, prevEnd, arrMax>>

\* status and message the catch block of connectToGemini sets
CatchStatus == "ERROR"

CatchMessage == "Failed to connect to AI Host"

\* the rejection not leaving the try block: getUserMedia is called next
AfterRejectFallThrough == "awaitMic"

\* position of attempt a after ai.live.connect rejected: the rest of the try
\* block (getUserMedia, the capture pipeline) is skipped
AfterReject == "rejected"

\* `await sessionPromise` throws: ai.live.connect rejected
connectRejected(a) ==
  /\ attempts[a].pc = "connecting"
  /\ Render(CatchStatus, script, isMicOn)
  /\ errorMsg' = CatchMessage
  /\ attempts' = [attempts EXCEPT ![a].pc = AfterReject]
  /\ chan' = [chan EXCEPT ![a] = "failed"]
  /\ Disrupt
  /\ UNCHANGED <<scope, primed>>
  /\ UNCHANGED <<isMicOnRef, sessionRef, nextStartTimeRef, sourcesRef,
                 currentTime, chunks, lastFrame, prevEnd, arrMax>>

\* a priming message for every context
PrimingAlways(sc) == 1

\* the priming messages onopen asks for: one if the script the call captured
\* is an image with data
Priming(sc) == IF sc.type = "image" /\ sc.data THEN 1 ELSE 0

\* sessionPromise resolves: `sessionRef.current = await sessionPromise`
\* resumes and getUserMedia is called, then the callback onopen registered
\* with sessionPromise.then sends the image; the script the closure captured
\* is not read after this point
sessionResolved(a) ==
  /\ attempts[a].pc = "opened"
  /\ sessionRef' = a
  /\ primed' = [primed EXCEPT ![a] = @ + Priming(attempts[a].stype)]
  /\ attempts' = [attempts EXCEPT ![a] = [pc |-> "awaitMic", stype |-> NoScript]]
  /\ UNCHANGED <<nDisrupt, scope, status, script, isMicOn, errorMsg, isMicOnRef, nextStartTimeRef,
                 sourcesRef, effectPending, chan, currentTime, chunks, lastFrame,
                 prevEnd, arrMax>>

\* getUserMedia resolves: the media stream source and the script processor
\* are created and connected
micGranted(a) ==
  /\ attempts[a].pc = "awaitMic"
  /\ attempts' = [attempts EXCEPT ![a].pc = "capturing"]
  /\ UNCHANGED <<nDisrupt, scope, primed, status, script, isMicOn, errorMsg, isMicOnRef, sessionRef,
                 nextStartTimeRef, sourcesRef, effectPending, chan, currentTime,
                 chunks, lastFrame, prevEnd, arrMax>>

\* getUserMedia rejects: the catch block
micDenied(a) ==
  /\ attempts[a].pc = "awaitMic"
  /\ Render(CatchStatus, script, isMicOn)
  /\ errorMsg' = CatchMessage
  /\ attempts' = [attempts EXCEPT ![a].pc = "micDenied"]
  /\ Disrupt
  /\ UNCHANGED <<scope, primed>>
  /\ UNCHANGED <<isMicOnRef, sessionRef, nextStartTimeRef, sourcesRef, chan,
                 currentTime, chunks, lastFrame, prevEnd, arrMax>>

\* the gate of processor.onaudioprocess
FrameGate == isMicOnRef

\* processor.onaudioprocess of the pipeline attempt a created: the frame is
\* encoded and sent on the session of attempt a, or dropped
onaudioprocess(a) ==
  /\ attempts[a].pc = "capturing"
  /\ lastFrame' = [by |-> a, sent |-> FrameGate]
  /\ UNCHANGED <<nDisrupt, scope, primed, status, script, isMicOn, errorMsg, isMicOnRef, sessionRef,
                 nextStartTimeRef, sourcesRef, effectPending, attempts, chan,
                 currentTime, chunks, prevEnd, arrMax>>

\* the cursor set to the clock without the maximum
CursorAtArrivalNow(cursor, now) == now

\* Math.max(nextStartTimeRef.current, ctx.currentTime)
CursorAtArrival(cursor, now) == Max(cursor, now)

\* the cursor not advanced by the chunk's duration
CursorAfterStartSame(cursor, duration) == cursor

\* nextStartTimeRef.current += audioBuffer.duration
CursorAfterStart(cursor, duration) == cursor + duration

\* decode(base64Audio) of utils/audioUtils: throws on an invalid encoding
decode(audio) == audio.kind # "bad"

\* the `interrupted` branch clearing the set without stopping its sources
StoppedNone(srcs) == {}

\* the sources the `interrupted` branch stops
Stopped(srcs) == srcs

\* cursor the `interrupted` branch leaves
CursorAfterInterrupt == 0

\* the `interrupted` branch of onmessage: stop every source of sourcesRef,
\* clear the set, reset the cursor
Interrupted(srcs, chs) ==
  /\ chunks' = [c \in Chunks |->
                  IF c \in Stopped(srcs)
                    THEN [chs[c] EXCEPT !.stopped = TRUE] ELSE chs[c]]
  /\ sourcesRef' = {}
  /\ nextStartTimeRef' = CursorAfterInterrupt
  /\ prevEnd' = <<>>
  /\ arrMax' = 0

\* callbacks.onmessage of attempt a up to `await decodeAudioData`, for a
\* message without inline audio data ("none"), with data that does not
\* decode ("bad") or with PCM data of a duration, and with or without
\* `interrupted`
onmessage(a, audio, interrupted) ==
  /\ chan[a] = "open"
  /\ IF audio.kind # "none"
       THEN /\ Render("SPEAKING", script, isMicOn)
            /\ nextStartTimeRef' = CursorAtArrival(nextStartTimeRef, currentTime)
            /\ arrMax' = Max(arrMax, currentTime)
            /\ IF decode(audio)
                 THEN /\ nChunks < scope.chunks
                      /\ chunks' = [chunks EXCEPT ![nChunks + 1] =
                                      [NoChunk EXCEPT !.st = "decoding",
                                                      !.dur = audio.dur,
                                                      !.intr = interrupted,
                                                      !.ctx = nAttempts]]
                 ELSE chunks' = chunks
            /\ UNCHANGED <<sourcesRef, prevEnd>>
       ELSE /\ UNCHANGED <<status, script, isMicOn, effectPending>>
            /\ IF interrupted
                 THEN Interrupted(sourcesRef, chunks)
                 ELSE UNCHANGED <<chunks, sourcesRef, nextStartTimeRef, prevEnd,
                                  arrMax>>
  /\ UNCHANGED <<nDisrupt, scope, primed, errorMsg, isMicOnRef, sessionRef, attempts, chan, currentTime,
                 lastFrame>>

\* the chunk as source.start(nextStartTimeRef.current) leaves it; a source
\* started in the past of its context plays from the call on
Started(c) ==
  [chunks[c] EXCEPT !.st = "live",
                    !.intr = FALSE,
                    !.start = nextStartTimeRef,
                    !.endAt = IF chunks[c].ctx = nAttempts
                                THEN Max(nextStartTimeRef, currentTime) + chunks[c].dur
                                ELSE 0]

\* onmessage resumes after `await decodeAudioData`: the source is created,
\* started at the cursor, the cursor advanced, the source added to
\* sourcesRef; then the `interrupted` branch of the same message
decodeDone(c) ==
  /\ chunks[c].st = "decoding"
  /\ IF chunks[c].intr
       THEN Interrupted(sourcesRef \cup {c}, [chunks EXCEPT ![c] = Started(c)])
       ELSE /\ chunks' = [chunks EXCEPT ![c] = Started(c)]
            /\ sourcesRef' = sourcesRef \cup {c}
            /\ nextStartTimeRef' = CursorAfterStart(nextStartTimeRef, chunks[c].dur)
            /\ prevEnd' = <<nextStartTimeRef + chunks[c].dur>>
            /\ arrMax' = 0
  /\ UNCHANGED <<nDisrupt, scope, primed, status, script, isMicOn, errorMsg, isMicOnRef, sessionRef,
                 effectPending, attempts, chan, currentTime, lastFrame>>

\* status source.onended sets when sourcesRef is empty
StatusWhenIdle == IF isMicOnRef THEN "LISTENING" ELSE "READY"

\* source.onended of chunk c: the source played to its end on the clock of
\* its context (not modelled for a context that is no longer the current
\* one), or it was stopped
onended(c) ==
  /\ chunks[c].st = "live"
  /\ \/ chunks[c].stopped
     \/ chunks[c].ctx # nAttempts
     \/ currentTime >= chunks[c].endAt
  /\ sourcesRef' = sourcesRef \ {c}
  /\ IF sourcesRef' = {}
       THEN Render(StatusWhenIdle, script, isMicOn)
       ELSE UNCHANGED <<status, script, isMicOn, effectPending>>
  /\ chunks' = [chunks EXCEPT ![c] =
                  [NoChunk EXCEPT !.st = "ended", !.stopped = chunks[c].stopped]]
  /\ UNCHANGED <<nDisrupt, scope, primed, errorMsg, isMicOnRef, sessionRef, nextStartTimeRef, attempts,
                 chan, currentTime, lastFrame, prevEnd, arrMax>>

\* callbacks.onerror of attempt a
onerror(a) ==
  /\ chan[a] = "open"
  /\ errorMsg' = "Connection error occurred"
  /\ Render("ERROR", script, isMicOn)
  /\ Disrupt
  /\ UNCHANGED <<scope, primed>>
  /\ UNCHANGED <<isMicOnRef, sessionRef, nextStartTimeRef, sourcesRef, attempts,
                 chan, currentTime, chunks, lastFrame, prevEnd, arrMax>>

\* callbacks.onclose of attempt a: the server closed the channel, or
\* session.close() was called on it
onclose(a) ==
  /\ chan[a] \in {"open", "closing"}
  /\ Render("IDLE", script, isMicOn)
  /\ sessionRef' = 0
  /\ chan' = [chan EXCEPT ![a] = "closed"]
  /\ IF chan[a] = "open" THEN Disrupt ELSE nDisrupt' = nDisrupt
  /\ UNCHANGED <<scope, primed>>
  /\ UNCHANGED <<errorMsg, isMicOnRef, nextStartTimeRef, sourcesRef, attempts,
                 currentTime, chunks, lastFrame, prevEnd, arrMax>>

\* onClick of "Reset Game Data", rendered while script is not null
ResetGameData ==
  /\ script # NoScript
  /\ Render("IDLE", NoScript, FALSE)
  /\ chan' = IF sessionRef # 0 /\ chan[sessionRef] = "open"
               THEN [chan EXCEPT ![sessionRef] = "closing"]
               ELSE chan
  /\ Disrupt
  /\ UNCHANGED <<scope, primed>>
  /\ UNCHANGED <<errorMsg, isMicOnRef, sessionRef, nextStartTimeRef, sourcesRef,
                 attempts, currentTime, chunks, lastFrame, prevEnd, arrMax>>

\* inbound messages: serverContent.modelTurn.parts[0].inlineData.data
Audio == {[kind |-> "none", dur |-> 0], [kind |-> "bad", dur |-> 0]}
           \cup {[kind |-> "pcm", dur |-> d] : d \in Durations}

Next ==
  \/ Tick
  \/ \E file \in Files : handleFileUpload(file)
  \/ \E pastedText \in PastedTexts : handlePasteSubmit(pastedText)
  \/ toggleMic
  \/ FlushEffects
  \/ ResetGameData
  \/ \E a \in Attempts : onopen(a)
  \/ \E a \in Attempts : connectRejected(a)
  \/ \E a \in Attempts : sessionResolved(a)
  \/ \E a \in Attempts : micGranted(a)
  \/ \E a \in Attempts : micDenied(a)
  \/ \E a \in Attempts : onaudioprocess(a)
  \/ \E a \in Attempts, audio \in Audio, interrupted \in BOOLEAN :
       onmessage(a, audio, interrupted)
  \/ \E c \in Chunks : decodeDone(c)
  \/ \E c \in Chunks : onended(c)
  \/ \E a \in Attempts : onerror(a)
  \/ \E a \in Attempts : onclose(a)

Spec == Init /\ [][Next]_vars

\* ---- the steps the claims speak of

\* a message carrying `interrupted` is handled to its end
InterruptionStep ==
  \/ \E a \in Attempts : onmessage(a, [kind |-> "none", dur |-> 0], TRUE)
  \/ \E c \in Chunks : chunks[c].intr /\ decodeDone(c)

\* an inbound message is handled (up to its await, or from it on)
MessageStep ==
  \/ \E a \in Attempts, audio \in Audio, interrupted \in BOOLEAN :
       onmessage(a, audio, interrupted)
  \/ \E c \in Chunks : decodeDone(c)

\* a message whose audio payload does not decode is handled
MalformedStep ==
  \E a \in Attempts, interrupted \in BOOLEAN :
    onmessage(a, [kind |-> "bad", dur |-> 0], interrupted)

FrameStep == \E a \in Attempts : onaudioprocess(a)

ContextStep ==
  \/ \E file \in Files : handleFileUpload(file)
  \/ \E pastedText \in PastedTexts : handlePasteSubmit(pastedText)

\* C1: after an inbound-message, source-ended, interruption, close or reset
\* event has been handled (no decode still in flight), status is SPEAKING
\* if and only if sourcesRef is non-empty.
C1_SpeakingIffPending ==
  [][(/\ \/ MessageStep
         \/ \E c \in Chunks : onended(c)
         \/ \E a \in Attempts : onclose(a)
         \/ ResetGameData
      /\ \A c \in Chunks : chunks'[c].st # "decoding")
     => (status' = "SPEAKING" <=> sourcesRef' # {})]_vars

\* C2: once status is ERROR, only the reset command or a new context takes
\* status out of ERROR.
C2_ErrorSticky ==
  [][(status = "ERROR" /\ status' # "ERROR") => (ResetGameData \/ ContextStep)]_vars

\* C3: at most one call of connectToGemini is outstanding (neither resolved
\* into sessionRef nor failed) at a time.
C3_OneOutstandingAttempt ==
  Cardinality({a \in Attempts : attempts[a].pc \in {"connecting", "opened"}}) <= 1

\* C4 as claimed: with no interruption in between, a chunk is scheduled to
\* start exactly where the chunk scheduled before it ends.
C4_GapFree ==
  [][\A c \in Chunks :
       (decodeDone(c) /\ prevEnd # <<>>) => chunks'[c].start = prevEnd[1]]_vars

\* C4 as amended: with no interruption in between, a chunk is scheduled to
\* start at the later of the end of the chunk scheduled before it and the
\* largest audio-clock time read at a chunk's arrival since then.
C4_StartAtEndOrArrival ==
  [][\A c \in Chunks :
       (decodeDone(c) /\ prevEnd # <<>>)
         => chunks'[c].start = Max(prevEnd[1], arrMax)]_vars

\* two chunks scheduled one after the other with a gap: the second arrived
\* after the first had ended
C4_Witness ==
  \E c1, c2 \in Chunks :
    /\ chunks[c1].st = "live" /\ chunks[c2].st = "live"
    /\ ~chunks[c1].stopped /\ ~chunks[c2].stopped
    /\ chunks[c2].start > chunks[c1].start + chunks[c1].dur
    /\ prevEnd = <<chunks[c2].start + chunks[c2].dur>>

\* C5: nextStartTimeRef decreases in no step other than one that handles an
\* interruption.
C5_CursorMonotone ==
  [][nextStartTimeRef' < nextStartTimeRef => InterruptionStep]_vars

\* chunk 1 was scheduled after its decode had been suspended across the
\* arrival, decode and scheduling of chunk 2
C5_Witness ==
  /\ chunks[1].st = "live" /\ chunks[2].st = "live"
  /\ chunks[1].start >= chunks[2].start + chunks[2].dur
  /\ nextStartTimeRef = chunks[1].start + chunks[1].dur

\* C6: a microphone frame is sent if and only if isMicOn is true when it is
\* delivered.
C6_FrameSentIffMicOn ==
  [][FrameStep => (lastFrame'.sent <=> isMicOn)]_vars

\* C7: when ai.live.connect rejects, status becomes ERROR, and the attempt
\* never gets to getUserMedia or a capture pipeline, and no frame comes from it.
C7_RejectedNeverCaptures ==
  [][/\ (\E a \in Attempts : connectRejected(a)) => status' = "ERROR"
     /\ \A a \in Attempts :
          chan'[a] = "failed"
            => /\ attempts'[a].pc \notin {"awaitMic", "capturing", "micDenied"}
               /\ lastFrame'.by # a]_vars

C7_Witness ==
  \E a \in Attempts :
    chan[a] = "failed" /\ attempts[a].pc = "rejected" /\ status = "ERROR"

C9_MalformedDropped ==
  [][MalformedStep
       => /\ status' = status
          /\ sourcesRef' = sourcesRef
          /\ nextStartTimeRef' = nextStartTimeRef]_vars

\* C10: after the reset command, and after a channel close, no channel is
\* open, every pending source has been stopped, sourcesRef is empty,
\* nextStartTimeRef is reset, isMicOn is false and status is IDLE.
C10_StopResetsAll ==
  [][(ResetGameData \/ \E a \in Attempts : onclose(a))
       => /\ \A a \in Attempts : chan'[a] # "open"
          /\ \A c \in Chunks : chunks'[c].st = "live" => chunks'[c].stopped
          /\ sourcesRef' = {}
          /\ nextStartTimeRef' = 0
          /\ ~isMicOn'
          /\ status' = "IDLE"]_vars

\* the effect of a render finds the mic on, status READY or FILE_UPLOADED
\* and no session in sessionRef, and calls connectToGemini
ConnectCalled ==
  /\ FlushEffects
  /\ isMicOn
  /\ status \in {"READY", "FILE_UPLOADED"}
  /\ sessionRef = 0

\* a text of blanks only
AllBlank(t) == \A i \in 1..Len(t) : t[i] = " "

\* C11: when the mic has been toggled on while status is READY or
\* FILE_UPLOADED and no session exists, a connection is started (status
\* becomes CONNECTING on the way to LISTENING).
C11_ConnectStarted ==
  [][ConnectCalled => (attempts' # attempts /\ status' = "CONNECTING")]_vars

\* C12: whenever a context is present, the mic is off and no channel is
\* open, being opened or being closed, the mic can be enabled to start a new
\* connection attempt: status is not IDLE, where the toggle is disabled and
\* ignored.
C12_EnableReconnects ==
  (/\ script # NoScript
   /\ ~isMicOn
   /\ ~effectPending
   /\ \A a \in Attempts : chan[a] \notin {"connecting", "open", "closing"})
    => status # "IDLE"

\* C13: whenever status is LISTENING (and the effects of the last render
\* have run), the mic flag is true and sourcesRef is empty.
C13_ListeningQuiet ==
  (status = "LISTENING" /\ ~effectPending) => (isMicOn /\ sourcesRef = {})

\* C14: of two chunks scheduled and not stopped, the one received first has
\* the earlier scheduled start time.
C14_ReceiveOrder ==
  \A c1, c2 \in Chunks :
    (/\ c1 < c2
     /\ chunks[c1].st = "live" /\ chunks[c2].st = "live"
     /\ ~chunks[c1].stopped /\ ~chunks[c2].stopped)
      => chunks[c1].start < chunks[c2].start

\* C15 as claimed: a session whose context is an image gets exactly one
\* priming message, sent when its session resolves (after the open, before
\* any frame of its capture pipeline); a session of another context gets none.
C15_ImagePrimedOnce ==
  [][\A a \in Attempts :
       /\ sessionResolved(a)
            => primed'[a] = IF attempts[a].stype.type = "image" THEN 1 ELSE 0
       /\ primed'[a] # primed[a] => sessionResolved(a)
       /\ lastFrame'.by = a => attempts'[a].pc = "capturing"]_vars

\* C15 as amended: a session whose context is an image with non-empty data
\* gets exactly one priming message, sent when its session resolves (after
\* the open, before any frame of its capture pipeline); a session of any
\* other context gets none.
C15_ImageDataPrimedOnce ==
  [][\A a \in Attempts :
       /\ sessionResolved(a)
            => primed'[a] = IF /\ attempts[a].stype.type = "image"
                               /\ attempts[a].stype.data
                              THEN 1 ELSE 0
       /\ primed'[a] # primed[a] => sessionResolved(a)
       /\ lastFrame'.by = a => attempts'[a].pc = "capturing"]_vars

\* a frame was sent on a session that was primed with its image, and another
\* session was opened for a context without an image and was not primed
C15_Witness ==
  \E a, b \in Attempts :
    /\ primed[a] = 1
    /\ lastFrame = [by |-> a, sent |-> TRUE]
    /\ attempts[b].pc \in {"awaitMic", "capturing"}
    /\ primed[b] = 0

\* C16: connectToGemini called while script is null starts no attempt, opens
\* no channel, and leaves status and errorMsg as they are; a pasted text of
\* blanks only does not become the script.
C16_EmptyContextRejected ==
  [][/\ (ConnectCalled /\ script = NoScript)
          => /\ attempts' = attempts
             /\ chan' = chan
             /\ status' = status
             /\ errorMsg' = errorMsg
     /\ \A pastedText \in PastedTexts :
          (handlePasteSubmit(pastedText) /\ AllBlank(pastedText))
            => (script' = NoScript /\ status' = status)]_vars

\* the effect called connectToGemini with the mic on, status READY, no
\* session and no script: nothing was started
C16_Witness ==
  /\ script = NoScript
  /\ status = "READY"
  /\ isMicOn
  /\ isMicOnRef
  /\ ~effectPending
  /\ sessionRef = 0
  /\ \A a \in Attempts : attempts[a].pc \in {"none", "opened"}

\* C17: onclose handled while status is not ERROR sets status to IDLE and
\* sessionRef to null, and sessionRef never holds a session whose channel
\* has closed.
C17_ClosedSessionReleased ==
  [][/\ \A a \in Attempts :
          (onclose(a) /\ status # "ERROR")
            => (status' = "IDLE" /\ sessionRef' = 0)
     /\ sessionRef' # 0 => chan'[sessionRef'] # "closed"]_vars

\* C18: a chunk is started at a time that is not earlier than the clock of
\* its audio context when source.start is called.
C18_NotInThePast ==
  [][\A c \in Chunks :
       (decodeDone(c) /\ chunks[c].ctx = nAttempts)
         => chunks'[c].start >= currentTime]_vars

\* C19: a frame is sent only on a session whose channel is open, and at
\* most one capture pipeline is running.
C19_CaptureEndsWithSession ==
  [][/\ \A a \in Attempts :
          (onaudioprocess(a) /\ lastFrame'.sent) => chan[a] = "open"
     /\ Cardinality({a \in Attempts : attempts'[a].pc = "capturing"}) <= 1]_vars

\* C20: whenever status is CONNECTING, READY, LISTENING or SPEAKING, script
\* is not null.
C20_ActiveHasContext ==
  status \in {"CONNECTING", "READY", "LISTENING", "SPEAKING"}
    => script # NoScript

\* C21: whenever status is IDLE, isMicOn is false.
C21_IdleMicOff ==
  status = "IDLE" => ~isMicOn
====
